---------------------------- MODULE Spec2Model ----------------------------
(***************************************************************************)
(* vtube-backend: the controllers of the video platform (subscriptions,    *)
(* likes, playlists, videos, users) as a state machine over the document   *)
(* store.  Every request handler is a sequence of atomic store operations  *)
(* separated by awaits; concurrent requests interleave at the awaits.      *)
(***************************************************************************)
EXTENDS Integers, Sequences, FiniteSets, TLC

\* ------------------------------------------------------------------ bounds
\* Requests that may be in flight at once.
NumReqs == 2
\* Requests started in one behaviour.
MaxCalls == 3

\* ------------------------------------------------------------- identifiers
Users == {"u1", "u2"}
\* The ids of the videos of the initial store; deleteVideo leaves an id that is
\* well formed and matches no document.
Videos == {"v1", "v2"}
Comments == {"c1"}
\* The ids of the playlists of the initial store; deletePlaylist leaves an id
\* that is well formed and matches no document.
Playlists == {"p1"}
\* An identifier that is not a well-formed ObjectId.
BadId == "bad"
\* null / undefined
Null == "null"
Reqs == 1..NumReqs
\* The n-th refresh token signed, and the tokens a behaviour can sign: a call signs
\* at most one.
Token(n) == ToString(n)
Tokens == {Token(n) : n \in 1..MaxCalls}

VARIABLES
    subscriptions,  \* the Subscription collection: documents {id, subscriber, channel}
    likes,          \* the Like collection: documents {id, video, comment, likedBy}
    videos,         \* the Video collection: a function from the ids in it to documents
    playlists,      \* the Playlist collection: a function from the ids in it to documents
    watchHistory,   \* User.watchHistory: user -> sequence of video ids
    req,            \* the requests in flight, one per slot
    last,           \* the request answered last, with its response
    calls,          \* requests started so far
    toggleCount,    \* history: toggles completed with a 200 response, per edge key
    viewCount,      \* history: getVideoById calls completed, per video id
    publishCount,   \* history: togglePublishStatus calls completed with 200, per video id
    refreshToken,   \* User.refreshToken: user -> the token stored, or null
    signed,         \* the refresh tokens signed so far: the user each was signed for
    accepted,       \* history: refreshAccessToken calls answered 200, per token presented
    revoked         \* history: the tokens signed for a user before a logout of that user

vars == <<subscriptions, likes, videos, playlists, watchHistory, req, last, calls,
          toggleCount, viewCount, publishCount, refreshToken, signed, accepted,
          revoked>>

\* The edge collections, the content collections, the history variables.
edges == <<subscriptions, likes>>
content == <<videos, playlists, watchHistory>>
history == <<toggleCount, viewCount, publishCount>>
sessions == <<refreshToken, signed, accepted, revoked>>

\* ---------------------------------------------------------------- requests
\* The data of a response that carries none (ApiError's data is null).
NoData == [null |-> TRUE]

NoRes == [status |-> 0, kind |-> "none", data |-> NoData]

\* new ApiResponse(200, data)
ApiResponse(data) == [status |-> 200, kind |-> "ok", data |-> data]

\* throw new ApiError(status, ...), or an exception of the runtime or the store
\* that asyncHandler turns into an error response.  The kind names what the
\* throw site rejects; the status is the one the code gives.
ApiError(status, kind) == [status |-> status, kind |-> kind, data |-> NoData]

\* A request: the handler (op), where it stands (pc), its inputs (user: req.user?._id;
\* id, id2: req.params; body: the shape of req.body and req.file), its locals (found:
\* the edge findOne gave, <<>> for null; doc: the document or aggregate result read,
\* <<>> for null or none; deleted: what findByIdAndDelete gave) and its response.
\* History: before is the array an $addToSet or $pull of the request met; alone
\* says that the toggle has overlapped no other toggle of its key.
IdleReq == [op |-> "none", pc |-> "idle", user |-> Null, id |-> Null, id2 |-> Null,
            body |-> "ok", found |-> <<>>, doc |-> <<>>, deleted |-> "none",
            before |-> <<>>, alone |-> TRUE, res |-> NoRes]

isValidObjectId(id) == id # BadId /\ id # Null

Min(S) == CHOOSE x \in S : \A y \in S : x <= y

Range(seq) == {seq[i] : i \in DOMAIN seq}

Last(seq) == seq[Len(seq)]

Free(r) == req[r].pc = "idle"

\* The slot a new request takes: slots are interchangeable, the lowest free one.
NextSlot(r) == Free(r) /\ r = Min({s \in Reqs : Free(s)}) /\ calls < MaxCalls

Begin(r, op, user, id, id2, body) ==
    [IdleReq EXCEPT !.op = op, !.pc = "start", !.user = user, !.id = id, !.id2 = id2,
                    !.body = body]

\* The request q, started in this step, is answered before its first await.
EndAtOnce(r, q, res) ==
    /\ last' = [q EXCEPT !.pc = "done", !.res = res]
    /\ UNCHANGED req

\* The request q, started in this step, goes on to pc with the document it read.
GoOn(r, q, pc, doc) ==
    /\ req' = [req EXCEPT ![r] = [q EXCEPT !.pc = pc, !.doc = doc]]
    /\ UNCHANGED last

\* The request of slot r, its locals as in q, is answered and leaves the slot.
Answer(r, q, res) ==
    /\ last' = [q EXCEPT !.pc = "done", !.res = res]
    /\ req' = [req EXCEPT ![r] = IdleReq]

\* ------------------------------------------------------------ edge store
\* The key of the edge a toggle request flips.
EdgeKey(q) == <<q.op, q.user, q.id>>

ToggleOps == {"toggleSubscription", "toggleVideoLike", "toggleCommentLike"}

EdgeKeys == ({"toggleSubscription"} \X Users \X Users)
       \cup ({"toggleVideoLike"} \X Users \X Videos)
       \cup ({"toggleCommentLike"} \X Users \X Comments)

\* Document ids held by some request: the ids of the documents it read.  A
\* request holds what findOne gave it as a sequence: <<>> for null, <<id>> for a
\* document.
HeldIds == UNION {Range(req[r].found) : r \in Reqs}

\* The _id of a new document.  ObjectIds are never reused; an id that no
\* document carries and no request holds is indistinguishable from a new one.
NewId(coll) ==
    LET used == {d.id : d \in coll} \cup HeldIds
    IN  Min((1..(Cardinality(used) + 1)) \ used)

\* Subscription.findOne({subscriber, channel}): the ids of the matching documents.
FindSubscription(subscriber, channel) ==
    {e.id : e \in {d \in subscriptions : d.subscriber = subscriber /\ d.channel = channel}}

\* Like.findOne({video, likedBy})
FindVideoLike(video, likedBy) ==
    {e.id : e \in {d \in likes : d.video = video /\ d.likedBy = likedBy}}

\* Like.findOne({comment, likedBy})
FindCommentLike(comment, likedBy) ==
    {e.id : e \in {d \in likes : d.comment = comment /\ d.likedBy = likedBy}}

\* What findOne hands back: a matching document's id, null when none matches.
FindOne(matches) == IF matches = {} THEN {<<>>} ELSE {<<m>> : m \in matches}

\* Model.findByIdAndDelete(id): removes the document with that id, if there is one.
FindByIdAndDelete(coll, id) == {d \in coll : d.id # id}

\* What findByIdAndDelete hands back: the deleted document, or null.
Deleted(coll, id) == IF \E d \in coll : d.id = id THEN "doc" ELSE "null"

\* Mutant: a Subscription collection with no uniqueness constraint.
SubscriptionDuplicateNever(subscriber, channel) == FALSE

\* The uniqueness constraint of the Subscription collection on (subscriber, channel):
\* a create of a second edge of the pair is rejected.
SubscriptionDuplicate(subscriber, channel) ==
    FindSubscription(subscriber, channel) # {}

\* The uniqueness constraint of the Like collection on (likedBy, target).
LikeDuplicate(video, comment, likedBy) ==
    \E d \in likes : d.video = video /\ d.comment = comment /\ d.likedBy = likedBy

\* ------------------------------------------------------------------- Init
Init ==
    /\ subscriptions = {}
    /\ likes = {}
    /\ videos = [v \in Videos |->
                    [owner |-> IF v = "v1" THEN "u1" ELSE "u2", views |-> 0,
                     isPublished |-> TRUE, title |-> "t0"]]
    /\ playlists = [p \in Playlists |-> [owner |-> "u1", videos |-> <<>>, name |-> "n0"]]
    /\ watchHistory = [u \in Users |-> <<>>]
    /\ req = [r \in Reqs |-> IdleReq]
    /\ last = IdleReq
    /\ calls = 0
    /\ toggleCount = [k \in EdgeKeys |-> 0]
    /\ viewCount = [v \in Videos |-> 0]
    /\ publishCount = [v \in Videos |-> 0]
    /\ refreshToken = [u \in Users |-> Null]
    /\ signed = <<>>
    /\ accepted = [t \in Tokens |-> 0]
    /\ revoked = {}

\* ------------------------------------------------------------ Toggle engine
\* A toggle between its findOne and its write.
Toggling(s) == req[s].op \in ToggleOps /\ req[s].pc = "write"

\* The toggles in flight on the key of q.
Overlapping(q) == {s \in Reqs : Toggling(s) /\ EdgeKey(req[s]) = EdgeKey(q)}

\* Mutant: the id check left out.
ToggleCallUnchecked(r, q, matches) ==
    /\ \E f \in FindOne(matches) :
           req' = [req EXCEPT ![r] = [q EXCEPT !.pc = "write", !.found = f]]
    /\ UNCHANGED last

\* The handler up to its first await and the findOne the await waits for.
ToggleCall(r, q, matches) ==
    IF ~isValidObjectId(q.id)
    THEN EndAtOnce(r, q, ApiError(400, "InvalidReference"))
    ELSE /\ \E f \in FindOne(matches) :
                req' = [s \in Reqs |->
                           IF s = r
                           THEN [q EXCEPT !.pc = "write", !.found = f,
                                          !.alone = (Overlapping(q) = {})]
                           ELSE IF s \in Overlapping(q)
                           THEN [req[s] EXCEPT !.alone = FALSE]
                           ELSE req[s]]
         /\ UNCHANGED last

\* toggleSubscription, lines 9-14: the id check and Subscription.findOne.
ToggleSubscriptionCall(r) ==
    /\ NextSlot(r)
    /\ \E user \in Users, channelId \in Users \cup {BadId} :
          ToggleCall(r, Begin(r, "toggleSubscription", user, channelId, Null, "ok"),
                     FindSubscription(user, channelId))
    /\ calls' = calls + 1
    /\ UNCHANGED <<edges, content, history, sessions>>

\* Mutant: the delete's result is checked, as deleteVideo checks its own.
UnsubscribedResponseChecked(deleted) ==
    IF deleted = "doc"
    THEN ApiResponse([subscribed |-> FALSE])
    ELSE ApiError(400, "NotFound")

\* toggleSubscription, lines 17-19: the response after findByIdAndDelete, whose
\* result (the deleted document, or null) is not looked at.
UnsubscribedResponse(deleted) ==
    ApiResponse([subscribed |-> FALSE])

\* Mutant: the create branch answers with the delete branch's flag.
SubscribedResponseFalse ==
    ApiResponse([subscribed |-> FALSE])

\* toggleSubscription, lines 24-26.
SubscribedResponse ==
    ApiResponse([subscribed |-> TRUE])

\* The response and the history count of a toggle that ends.
ToggleEnd(r, deleted, res) ==
    /\ Answer(r, [req[r] EXCEPT !.deleted = deleted], res)
    /\ toggleCount' = IF res.status = 200
                      THEN [toggleCount EXCEPT ![EdgeKey(req[r])] = @ + 1]
                      ELSE toggleCount

\* toggleSubscription, lines 16-26: delete the edge found, or create one.  A create
\* the store rejects throws; nothing catches it and the request ends in an error.
ToggleSubscriptionWrite(r) ==
    /\ req[r].op = "toggleSubscription" /\ req[r].pc = "write"
    /\ LET q == req[r] IN
       IF q.found # <<>>
       THEN /\ subscriptions' = FindByIdAndDelete(subscriptions, q.found[1])
            /\ ToggleEnd(r, Deleted(subscriptions, q.found[1]),
                         UnsubscribedResponse(Deleted(subscriptions, q.found[1])))
       ELSE IF SubscriptionDuplicate(q.user, q.id)
            THEN /\ UNCHANGED subscriptions
                 /\ ToggleEnd(r, "none", ApiError(500, "DuplicateKey"))
            ELSE /\ subscriptions' = subscriptions \cup
                        {[id |-> NewId(subscriptions), subscriber |-> q.user,
                          channel |-> q.id]}
                 /\ ToggleEnd(r, "none", SubscribedResponse)
    /\ UNCHANGED <<likes, content, calls, viewCount, publishCount, sessions>>

\* toggleVideoLike, lines 8-17: the id check and Like.findOne.
ToggleVideoLikeCall(r) ==
    /\ NextSlot(r)
    /\ \E user \in Users, videoId \in Videos \cup {BadId} :
          ToggleCall(r, Begin(r, "toggleVideoLike", user, videoId, Null, "ok"),
                     FindVideoLike(videoId, user))
    /\ calls' = calls + 1
    /\ UNCHANGED <<edges, content, history, sessions>>

\* toggleVideoLike lines 21-23 and toggleCommentLike lines 50-52.
UnlikedResponse(deleted) ==
    ApiResponse([isLiked |-> FALSE])

\* toggleVideoLike lines 31-33 and toggleCommentLike lines 60-62.
LikedResponse ==
    ApiResponse([isLiked |-> TRUE])

\* The write half of a like toggle: Like.findByIdAndDelete or Like.create.
LikeWrite(r, video, comment) ==
    LET q == req[r] IN
    IF q.found # <<>>
    THEN /\ likes' = FindByIdAndDelete(likes, q.found[1])
         /\ ToggleEnd(r, Deleted(likes, q.found[1]),
                      UnlikedResponse(Deleted(likes, q.found[1])))
    ELSE IF LikeDuplicate(video, comment, q.user)
         THEN /\ UNCHANGED likes
              /\ ToggleEnd(r, "none", ApiError(500, "DuplicateKey"))
         ELSE /\ likes' = likes \cup
                     {[id |-> NewId(likes), video |-> video, comment |-> comment,
                       likedBy |-> q.user]}
              /\ ToggleEnd(r, "none", LikedResponse)

\* toggleVideoLike, lines 19-33.
ToggleVideoLikeWrite(r) ==
    /\ req[r].op = "toggleVideoLike" /\ req[r].pc = "write"
    /\ LikeWrite(r, req[r].id, Null)
    /\ UNCHANGED <<subscriptions, content, calls, viewCount, publishCount, sessions>>

\* toggleCommentLike, lines 37-46.
ToggleCommentLikeCall(r) ==
    /\ NextSlot(r)
    /\ \E user \in Users, commentId \in Comments \cup {BadId} :
          ToggleCall(r, Begin(r, "toggleCommentLike", user, commentId, Null, "ok"),
                     FindCommentLike(commentId, user))
    /\ calls' = calls + 1
    /\ UNCHANGED <<edges, content, history, sessions>>

\* toggleCommentLike, lines 48-62.
ToggleCommentLikeWrite(r) ==
    /\ req[r].op = "toggleCommentLike" /\ req[r].pc = "write"
    /\ LikeWrite(r, Null, req[r].id)
    /\ UNCHANGED <<subscriptions, content, calls, viewCount, publishCount, sessions>>

\* ----------------------------------------------------------- channel profile
\* Mutant: the two $lookup stages' foreign fields exchanged.
ChannelProfileSwapped(channel, viewer) ==
    LET subscribers  == {d \in subscriptions : d.subscriber = channel}
        subscribedTo == {d \in subscriptions : d.channel = channel}
    IN  [subscribersCount |-> Cardinality(subscribers),
         channelsSubscribedToCount |-> Cardinality(subscribedTo),
         isSubscribed |-> viewer \in {d.subscriber : d \in subscribers}]

\* getUserChannelProfile, lines 345-389: the $lookup, $addFields and $project
\* stages applied to the matched user.  $size counts the joined documents; $in
\* looks the viewer's id up among their subscriber fields.
ChannelProfile(channel, viewer) ==
    LET subscribers  == {d \in subscriptions : d.channel = channel}
        subscribedTo == {d \in subscriptions : d.subscriber = channel}
    IN  [subscribersCount |-> Cardinality(subscribers),
         channelsSubscribedToCount |-> Cardinality(subscribedTo),
         isSubscribed |-> viewer \in {d.subscriber : d \in subscribers}]

\* Usernames asked for: each user's (a user is named by its id here), one that
\* no user carries, and the empty one.
Usernames == Users \cup {"nobody", ""}

\* getUserChannelProfile, lines 331-399: one aggregate, then the response.  The
\* viewer is req.user?._id, undefined (Null) for an anonymous request.
GetUserChannelProfile(r) ==
    /\ NextSlot(r)
    /\ \E viewer \in Users \cup {Null}, username \in Usernames :
          EndAtOnce(r, Begin(r, "getUserChannelProfile", viewer, username, Null, "ok"),
                    IF username = "" THEN ApiError(400, "InvalidInput")
                    ELSE IF username \notin Users THEN ApiError(404, "NotFound")
                    ELSE ApiResponse(ChannelProfile(username, viewer)))
    /\ calls' = calls + 1
    /\ UNCHANGED <<edges, content, history, sessions>>

NextToggle ==
    \E r \in Reqs :
        \/ ToggleSubscriptionCall(r)
        \/ ToggleSubscriptionWrite(r)
        \/ ToggleVideoLikeCall(r)
        \/ ToggleVideoLikeWrite(r)
        \/ ToggleCommentLikeCall(r)
        \/ ToggleCommentLikeWrite(r)
        \/ GetUserChannelProfile(r)

SpecToggle == Init /\ [][NextToggle]_vars

\* ------------------------------------------------------------------ videos
\* Model.findById(id): <<>> for null, <<document>> otherwise.
FindById(coll, id) == IF id \in DOMAIN coll THEN <<coll[id]>> ELSE <<>>

\* Model.findByIdAndDelete(id) on a collection held as a function.
Remove(coll, id) == [x \in DOMAIN coll \ {id} |-> coll[x]]

\* Mutant: the ownership check left out.
IsOwnerAlways(doc, user) == TRUE

\* doc.owner.toString() === req.user?._id.toString(): updateVideo line 273, and the
\* same comparison in deleteVideo (324), togglePublishStatus (366),
\* addVideoToPlaylist, removeVideoFromPlaylist, deletePlaylist and updatePlaylist.
IsOwner(doc, user) == doc.owner = user

\* Mutant: $push in place of $addToSet.
AddToSetPush(array, x) == Append(array, x)

\* $addToSet: the value is appended unless the array holds it already, anywhere.
AddToSet(array, x) == IF x \in Range(array) THEN array ELSE Append(array, x)

\* getVideoById, lines 158-198: the owner joined, its subscribers joined by
\* channel and counted, the viewer looked up among them.
OwnerDetail(owner, viewer) ==
    LET subscribers == {d \in subscriptions : d.channel = owner}
    IN  [subscribersCount |-> Cardinality(subscribers),
         isSubscribed |-> viewer \in {d.subscriber : d \in subscribers}]

\* getVideoById, lines 143-230: the aggregate's result, an array of no or one
\* element: the video matched, its likes and its owner joined and counted.
VideoDetail(videoId, viewer) ==
    IF videoId \notin DOMAIN videos THEN <<>>
    ELSE LET video == videos[videoId]
             videoLikes == {d \in likes : d.video = videoId}
         IN  << [views |-> video.views,
                 likesCount |-> Cardinality(videoLikes),
                 isLiked |-> viewer \in {d.likedBy : d \in videoLikes},
                 owner |-> OwnerDetail(video.owner, viewer)] >>

\* getVideoById, lines 132-230: the two id checks, then the aggregate.
GetVideoByIdCall(r) ==
    /\ NextSlot(r)
    /\ \E viewer \in Users \cup {Null}, videoId \in Videos \cup {BadId} :
          LET q == Begin(r, "getVideoById", viewer, videoId, Null, "ok") IN
          IF ~isValidObjectId(videoId) \/ ~isValidObjectId(viewer)
          THEN EndAtOnce(r, q, ApiError(400, "InvalidReference"))
          ELSE GoOn(r, q, "inc", VideoDetail(videoId, viewer))
    /\ calls' = calls + 1
    /\ UNCHANGED <<edges, content, history, sessions>>

\* Mutant: the counter written back from the value the aggregate read.
IncViewsFromRead(coll, videoId, video) ==
    IF videoId \in DOMAIN coll /\ video # <<>>
    THEN [coll EXCEPT ![videoId].views = video[1].views + 1]
    ELSE coll

\* getVideoById, lines 237-241: Video.findByIdAndUpdate(videoId, {$inc: {views: 1}}),
\* whatever the aggregate's result (video) was; no document, no update.
IncViews(coll, videoId, video) ==
    IF videoId \in DOMAIN coll
    THEN [coll EXCEPT ![videoId].views = @ + 1]
    ELSE coll

\* getVideoById, lines 232-241: an array is never falsy, so the handler goes on
\* to the $inc whether or not a video was matched.
GetVideoByIdInc(r) ==
    /\ req[r].op = "getVideoById" /\ req[r].pc = "inc"
    /\ videos' = IncViews(videos, req[r].id, req[r].doc)
    /\ req' = [req EXCEPT ![r].pc = "history"]
    /\ UNCHANGED <<edges, playlists, watchHistory, last, calls, history, sessions>>

\* Mutant: the video is appended unless it is the array's last element.
WatchHistoryUpdateUnlessLast(array, videoId) ==
    IF array # <<>> /\ array[Len(array)] = videoId THEN array ELSE Append(array, videoId)

\* getVideoById, lines 243-247: {$addToSet: {watchHistory: videoId}}.
WatchHistoryUpdate(array, videoId) == AddToSet(array, videoId)

\* getVideoById, lines 243-251: the watch history update and the response.
GetVideoByIdHistory(r) ==
    /\ req[r].op = "getVideoById" /\ req[r].pc = "history"
    /\ watchHistory' = [watchHistory EXCEPT
                            ![req[r].user] = WatchHistoryUpdate(@, req[r].id)]
    /\ Answer(r, [req[r] EXCEPT !.before = watchHistory[req[r].user]],
              ApiResponse([video |-> req[r].doc]))
    /\ viewCount' = IF req[r].id \in DOMAIN viewCount
                    THEN [viewCount EXCEPT ![req[r].id] = @ + 1]
                    ELSE viewCount
    /\ UNCHANGED <<edges, videos, playlists, calls, toggleCount, publishCount, sessions>>

\* The shapes of an updateVideo request: complete, title or description missing,
\* no thumbnail file.
VideoBodies == {"ok", "noFields", "noFile"}

\* updateVideo, lines 256-284: the checks and Video.findById.
UpdateVideoCall(r) ==
    /\ NextSlot(r)
    /\ \E user \in Users, videoId \in Videos \cup {BadId}, body \in VideoBodies :
          LET q == Begin(r, "updateVideo", user, videoId, Null, body)
              video == FindById(videos, videoId)
          IN  IF ~isValidObjectId(videoId)
              THEN EndAtOnce(r, q, ApiError(400, "InvalidReference"))
              ELSE IF body = "noFields"
              THEN EndAtOnce(r, q, ApiError(400, "InvalidInput"))
              ELSE IF video = <<>>
              THEN EndAtOnce(r, q, ApiError(500, "NotFound"))
              ELSE IF ~IsOwner(video[1], user)
              THEN EndAtOnce(r, q, ApiError(400, "Forbidden"))
              ELSE IF body = "noFile"
              THEN EndAtOnce(r, q, ApiError(400, "InvalidInput"))
              ELSE GoOn(r, q, "write", video)
    /\ calls' = calls + 1
    /\ UNCHANGED <<edges, content, history, sessions>>

\* updateVideo, lines 286-308: the upload, which may fail, then
\* Video.findByIdAndUpdate(videoId, {$set: ...}), null when the video is gone.
UpdateVideoWrite(r) ==
    /\ req[r].op = "updateVideo" /\ req[r].pc = "write"
    /\ \/ /\ Answer(r, req[r], ApiError(400, "UploadFailed"))
          /\ UNCHANGED videos
       \/ IF req[r].id \in DOMAIN videos
          THEN /\ videos' = [videos EXCEPT ![req[r].id].title = "t1"]
               /\ Answer(r, req[r], ApiResponse([title |-> "t1"]))
          ELSE /\ UNCHANGED videos
               /\ Answer(r, req[r], ApiError(500, "WriteFailed"))
    /\ UNCHANGED <<edges, playlists, watchHistory, calls, history, sessions>>

\* The first half of deleteVideo (lines 312-329) and of togglePublishStatus
\* (lines 354-371): the id check, Video.findById, the ownership check.
VideoOwnerCall(r, q, missing) ==
    LET video == FindById(videos, q.id) IN
    IF ~isValidObjectId(q.id)
    THEN EndAtOnce(r, q, ApiError(400, "InvalidReference"))
    ELSE IF video = <<>>
    THEN EndAtOnce(r, q, ApiError(missing, "NotFound"))
    ELSE IF ~IsOwner(video[1], q.user)
    THEN EndAtOnce(r, q, ApiError(400, "Forbidden"))
    ELSE GoOn(r, q, "write", video)

\* deleteVideo, lines 312-329.
DeleteVideoCall(r) ==
    /\ NextSlot(r)
    /\ \E user \in Users, videoId \in Videos \cup {BadId} :
          VideoOwnerCall(r, Begin(r, "deleteVideo", user, videoId, Null, "ok"), 500)
    /\ calls' = calls + 1
    /\ UNCHANGED <<edges, content, history, sessions>>

\* Mutant: Like imported, the likes of the video deleted with it.
DeleteVideoWriteCascade(r) ==
    /\ req[r].op = "deleteVideo" /\ req[r].pc = "write"
    /\ IF req[r].id \in DOMAIN videos
       THEN /\ videos' = Remove(videos, req[r].id)
            /\ likes' = {d \in likes : d.video # req[r].id}
            /\ Answer(r, req[r], ApiResponse(NoData))
       ELSE /\ UNCHANGED <<videos, likes>>
            /\ Answer(r, req[r], ApiError(400, "WriteFailed"))
    /\ UNCHANGED <<subscriptions, playlists, watchHistory, calls, history, sessions>>

\* deleteVideo, lines 331-349: Video.findByIdAndDelete.  The module imports
\* neither Like nor Comment (lines 1-7): once the video is deleted, evaluating
\* Like.deleteMany throws a ReferenceError, and the likes stay.
DeleteVideoWrite(r) ==
    /\ req[r].op = "deleteVideo" /\ req[r].pc = "write"
    /\ IF req[r].id \in DOMAIN videos
       THEN /\ videos' = Remove(videos, req[r].id)
            /\ Answer(r, req[r], ApiError(500, "ReferenceError"))
       ELSE /\ UNCHANGED videos
            /\ Answer(r, req[r], ApiError(400, "WriteFailed"))
    /\ UNCHANGED <<edges, playlists, watchHistory, calls, history, sessions>>

\* togglePublishStatus, lines 354-371.
TogglePublishStatusCall(r) ==
    /\ NextSlot(r)
    /\ \E user \in Users, videoId \in Videos \cup {BadId} :
          VideoOwnerCall(r, Begin(r, "togglePublishStatus", user, videoId, Null, "ok"),
                         404)
    /\ calls' = calls + 1
    /\ UNCHANGED <<edges, content, history, sessions>>

\* Mutant: the document read by findById written back whole, with the flag
\* negated.
TogglePublishStatusWriteSaved(r) ==
    /\ req[r].op = "togglePublishStatus" /\ req[r].pc = "write"
    /\ IF req[r].id \in DOMAIN videos
       THEN /\ videos' = [videos EXCEPT ![req[r].id] =
                              [req[r].doc[1] EXCEPT !.isPublished = ~@]]
            /\ Answer(r, req[r], ApiResponse(
                          [isPublished |-> ~req[r].doc[1].isPublished]))
            /\ publishCount' = [publishCount EXCEPT ![req[r].id] = @ + 1]
       ELSE /\ UNCHANGED <<videos, publishCount>>
            /\ Answer(r, req[r], ApiError(500, "WriteFailed"))
    /\ UNCHANGED <<edges, playlists, watchHistory, calls, toggleCount,
                 viewCount, sessions>>

\* togglePublishStatus, lines 373-395: isPublished set to the negation of the
\* value findById read; null when the video is gone.
TogglePublishStatusWrite(r) ==
    /\ req[r].op = "togglePublishStatus" /\ req[r].pc = "write"
    /\ IF req[r].id \in DOMAIN videos
       THEN /\ videos' = [videos EXCEPT ![req[r].id].isPublished =
                                            ~req[r].doc[1].isPublished]
            /\ Answer(r, req[r], ApiResponse(
                          [isPublished |-> ~req[r].doc[1].isPublished]))
            /\ publishCount' = [publishCount EXCEPT ![req[r].id] = @ + 1]
       ELSE /\ UNCHANGED <<videos, publishCount>>
            /\ Answer(r, req[r], ApiError(500, "WriteFailed"))
    /\ UNCHANGED <<edges, playlists, watchHistory, calls, toggleCount,
                 viewCount, sessions>>

NextVideo ==
    \E r \in Reqs :
        \/ GetVideoByIdCall(r)
        \/ GetVideoByIdInc(r)
        \/ GetVideoByIdHistory(r)
        \/ UpdateVideoCall(r)
        \/ UpdateVideoWrite(r)
        \/ DeleteVideoCall(r)
        \/ DeleteVideoWrite(r)
        \/ TogglePublishStatusCall(r)
        \/ TogglePublishStatusWrite(r)

SpecVideo == Init /\ [][NextVideo]_vars

\* Video detail reads against the one operation that removes a video.
NextView ==
    \E r \in Reqs :
        \/ GetVideoByIdCall(r)
        \/ GetVideoByIdInc(r)
        \/ GetVideoByIdHistory(r)
        \/ DeleteVideoCall(r)
        \/ DeleteVideoWrite(r)

SpecView == Init /\ [][NextView]_vars

\* Subscriptions toggled against the two reads that derive counts from them.
NextProfile ==
    \E r \in Reqs :
        \/ ToggleSubscriptionCall(r)
        \/ ToggleSubscriptionWrite(r)
        \/ GetUserChannelProfile(r)
        \/ GetVideoByIdCall(r)
        \/ GetVideoByIdInc(r)
        \/ GetVideoByIdHistory(r)

SpecProfile == Init /\ [][NextProfile]_vars

\* --------------------------------------------------------------- playlists
\* The id checks and the Playlist.findById of addVideoToPlaylist (lines 299-305)
\* and of removeVideoFromPlaylist (lines 343-349).
PlaylistVideoStart(r, q) ==
    IF ~isValidObjectId(q.id) \/ ~isValidObjectId(q.id2)
    THEN EndAtOnce(r, q, ApiError(400, "InvalidReference"))
    ELSE GoOn(r, q, "read", FindById(playlists, q.id))

\* The Video.findById of addVideoToPlaylist (lines 307-319) and of
\* removeVideoFromPlaylist (lines 351-365), then the checks of the playlist, of
\* the video and of the owner, in that order.  forbidden is the status the
\* handler gives its ownership error.
PlaylistVideoChecks(r, forbidden) ==
    LET q == req[r]
        video == FindById(videos, q.id2)
    IN  IF q.doc = <<>>
        THEN Answer(r, q, ApiError(404, "NotFound"))
        ELSE IF video = <<>>
        THEN Answer(r, q, ApiError(404, "NotFound"))
        ELSE IF ~IsOwner(q.doc[1], q.user)
        THEN Answer(r, q, ApiError(forbidden, "Forbidden"))
        ELSE req' = [req EXCEPT ![r].pc = "write"] /\ UNCHANGED last

\* addVideoToPlaylist, lines 299-305.
AddVideoToPlaylistCall(r) ==
    /\ NextSlot(r)
    /\ \E user \in Users, playlistId \in Playlists \cup {BadId},
          videoId \in Videos \cup {BadId} :
          PlaylistVideoStart(r, Begin(r, "addVideoToPlaylist", user, playlistId,
                                      videoId, "ok"))
    /\ calls' = calls + 1
    /\ UNCHANGED <<edges, content, history, sessions>>

\* addVideoToPlaylist, lines 307-319.
AddVideoToPlaylistRead(r) ==
    /\ req[r].op = "addVideoToPlaylist" /\ req[r].pc = "read"
    /\ PlaylistVideoChecks(r, 400)
    /\ UNCHANGED <<edges, content, calls, history, sessions>>

\* addVideoToPlaylist, lines 321-339: Playlist.findByIdAndUpdate with
\* {$addToSet: {videos: videoId}}; null, and an error, when the playlist is gone.
AddVideoToPlaylistWrite(r) ==
    /\ req[r].op = "addVideoToPlaylist" /\ req[r].pc = "write"
    /\ LET q == req[r] IN
       IF q.id \in DOMAIN playlists
       THEN /\ playlists' = [playlists EXCEPT ![q.id].videos = AddToSet(@, q.id2)]
            /\ Answer(r, [q EXCEPT !.before = playlists[q.id].videos],
                      ApiResponse([videos |-> AddToSet(playlists[q.id].videos, q.id2)]))
       ELSE /\ UNCHANGED playlists
            /\ Answer(r, q, ApiError(400, "WriteFailed"))
    /\ UNCHANGED <<edges, videos, watchHistory, calls, history, sessions>>

\* removeVideoFromPlaylist, lines 343-349.
RemoveVideoFromPlaylistCall(r) ==
    /\ NextSlot(r)
    /\ \E user \in Users, playlistId \in Playlists \cup {BadId},
          videoId \in Videos \cup {BadId} :
          PlaylistVideoStart(r, Begin(r, "removeVideoFromPlaylist", user, playlistId,
                                      videoId, "ok"))
    /\ calls' = calls + 1
    /\ UNCHANGED <<edges, content, history, sessions>>

\* removeVideoFromPlaylist, lines 351-365: the ownership error has status 404.
RemoveVideoFromPlaylistRead(r) ==
    /\ req[r].op = "removeVideoFromPlaylist" /\ req[r].pc = "read"
    /\ PlaylistVideoChecks(r, 404)
    /\ UNCHANGED <<edges, content, calls, history, sessions>>

\* $pull: every element equal to the value is removed.
Pull(array, x) == SelectSeq(array, LAMBDA y : y # x)

\* removeVideoFromPlaylist, lines 367-385: Playlist.findByIdAndUpdate with
\* {$pull: {videos: videoId}}; its result, null when the playlist is gone, is
\* sent as it is.
RemoveVideoFromPlaylistWrite(r) ==
    /\ req[r].op = "removeVideoFromPlaylist" /\ req[r].pc = "write"
    /\ LET q == req[r] IN
       IF q.id \in DOMAIN playlists
       THEN /\ playlists' = [playlists EXCEPT ![q.id].videos = Pull(@, q.id2)]
            /\ Answer(r, [q EXCEPT !.before = playlists[q.id].videos],
                      ApiResponse([videos |-> Pull(playlists[q.id].videos, q.id2)]))
       ELSE /\ UNCHANGED playlists
            /\ Answer(r, q, ApiResponse(NoData))
    /\ UNCHANGED <<edges, videos, watchHistory, calls, history, sessions>>

\* deletePlaylist, lines 389-399: the id check, Playlist.findById and the
\* ownership check; playlist.owner of null throws a TypeError.
DeletePlaylistCall(r) ==
    /\ NextSlot(r)
    /\ \E user \in Users, playlistId \in Playlists \cup {BadId} :
          LET q == Begin(r, "deletePlaylist", user, playlistId, Null, "ok")
              playlist == FindById(playlists, playlistId)
          IN  IF ~isValidObjectId(playlistId)
              THEN EndAtOnce(r, q, ApiError(400, "InvalidReference"))
              ELSE IF playlist = <<>>
              THEN EndAtOnce(r, q, ApiError(500, "TypeError"))
              ELSE IF ~IsOwner(playlist[1], user)
              THEN EndAtOnce(r, q, ApiError(400, "Forbidden"))
              ELSE GoOn(r, q, "write", playlist)
    /\ calls' = calls + 1
    /\ UNCHANGED <<edges, content, history, sessions>>

\* deletePlaylist, lines 401-411: Playlist.findByIdAndDelete, its result not
\* looked at.
DeletePlaylistWrite(r) ==
    /\ req[r].op = "deletePlaylist" /\ req[r].pc = "write"
    /\ playlists' = IF req[r].id \in DOMAIN playlists
                    THEN Remove(playlists, req[r].id)
                    ELSE playlists
    /\ Answer(r, req[r], ApiResponse(NoData))
    /\ UNCHANGED <<edges, videos, watchHistory, calls, history, sessions>>

\* The shapes of an updatePlaylist request: complete, name or description missing.
PlaylistBodies == {"ok", "noFields"}

\* updatePlaylist, lines 416-435: the body check, the id check, Playlist.findById,
\* the ownership check.
UpdatePlaylistCall(r) ==
    /\ NextSlot(r)
    /\ \E user \in Users, playlistId \in Playlists \cup {BadId}, body \in PlaylistBodies :
          LET q == Begin(r, "updatePlaylist", user, playlistId, Null, body)
              playlist == FindById(playlists, playlistId)
          IN  IF body = "noFields"
              THEN EndAtOnce(r, q, ApiError(400, "InvalidInput"))
              ELSE IF ~isValidObjectId(playlistId)
              THEN EndAtOnce(r, q, ApiError(400, "InvalidReference"))
              ELSE IF playlist = <<>>
              THEN EndAtOnce(r, q, ApiError(400, "NotFound"))
              ELSE IF ~IsOwner(playlist[1], user)
              THEN EndAtOnce(r, q, ApiError(400, "Forbidden"))
              ELSE GoOn(r, q, "write", playlist)
    /\ calls' = calls + 1
    /\ UNCHANGED <<edges, content, history, sessions>>

\* updatePlaylist, lines 437-450: Playlist.findByIdAndUpdate with {$set: ...}; its
\* result, null when the playlist is gone, is sent as it is.
UpdatePlaylistWrite(r) ==
    /\ req[r].op = "updatePlaylist" /\ req[r].pc = "write"
    /\ IF req[r].id \in DOMAIN playlists
       THEN /\ playlists' = [playlists EXCEPT ![req[r].id].name = "n1"]
            /\ Answer(r, req[r], ApiResponse([name |-> "n1"]))
       ELSE /\ UNCHANGED playlists
            /\ Answer(r, req[r], ApiResponse(NoData))
    /\ UNCHANGED <<edges, videos, watchHistory, calls, history, sessions>>

RECURSIVE SumViews(_)
\* $sum: "$videos.views" over the joined videos.
SumViews(S) ==
    IF S = {} THEN 0
    ELSE LET v == CHOOSE x \in S : TRUE IN videos[v].views + SumViews(S \ {v})

\* getUserPlaylists, lines 185-200: the $lookup joins the videos of the store
\* whose _id is in the playlist's videos array, each once; $size and $sum are
\* taken over the joined videos.
PlaylistSummary(playlistId) ==
    LET joined == Range(playlists[playlistId].videos) \cap DOMAIN videos
    IN  [name |-> playlists[playlistId].name,
         totalVideos |-> Cardinality(joined),
         totalViews |-> SumViews(joined)]

\* getUserPlaylists, lines 172-215: one aggregate, the playlists the user owns.
GetUserPlaylists(r) ==
    /\ NextSlot(r)
    /\ \E userId \in Users \cup {BadId} :
          LET q == Begin(r, "getUserPlaylists", Null, userId, Null, "ok")
              owned == {p \in DOMAIN playlists : playlists[p].owner = userId}
          IN  IF ~isValidObjectId(userId)
              THEN EndAtOnce(r, q, ApiError(400, "InvalidReference"))
              ELSE EndAtOnce(r, q, ApiResponse([p \in owned |-> PlaylistSummary(p)]))
    /\ calls' = calls + 1
    /\ UNCHANGED <<edges, content, history, sessions>>

\* The playlist's video array under adds, removes and the summary read, with
\* the operation that removes a video.
NextPlaylist ==
    \E r \in Reqs :
        \/ AddVideoToPlaylistCall(r)
        \/ AddVideoToPlaylistRead(r)
        \/ AddVideoToPlaylistWrite(r)
        \/ RemoveVideoFromPlaylistCall(r)
        \/ RemoveVideoFromPlaylistRead(r)
        \/ RemoveVideoFromPlaylistWrite(r)
        \/ GetUserPlaylists(r)
        \/ DeleteVideoCall(r)
        \/ DeleteVideoWrite(r)

SpecPlaylist == Init /\ [][NextPlaylist]_vars

\* The operations that change a video or a playlist.
NextOwner ==
    \E r \in Reqs :
        \/ UpdateVideoCall(r)
        \/ UpdateVideoWrite(r)
        \/ DeleteVideoCall(r)
        \/ DeleteVideoWrite(r)
        \/ TogglePublishStatusCall(r)
        \/ TogglePublishStatusWrite(r)
        \/ AddVideoToPlaylistCall(r)
        \/ AddVideoToPlaylistRead(r)
        \/ AddVideoToPlaylistWrite(r)
        \/ RemoveVideoFromPlaylistCall(r)
        \/ RemoveVideoFromPlaylistRead(r)
        \/ RemoveVideoFromPlaylistWrite(r)
        \/ DeletePlaylistCall(r)
        \/ DeletePlaylistWrite(r)
        \/ UpdatePlaylistCall(r)
        \/ UpdatePlaylistWrite(r)

SpecOwner == Init /\ [][NextOwner]_vars

\* ------------------------------------------------------------ toggle claims
\* The edges of a key in the store.
EdgesOf(k) ==
    IF k[1] = "toggleSubscription"
    THEN {d.id : d \in {e \in subscriptions : e.subscriber = k[2] /\ e.channel = k[3]}}
    ELSE IF k[1] = "toggleVideoLike"
    THEN {d.id : d \in {e \in likes : e.likedBy = k[2] /\ e.video = k[3]}}
    ELSE {d.id : d \in {e \in likes : e.likedBy = k[2] /\ e.comment = k[3]}}

\* The boolean a toggle's response reports: subscribed, or isLiked.
Reported(q) ==
    IF q.op = "toggleSubscription" THEN q.res.data.subscribed ELSE q.res.data.isLiked

\* The step in which toggle r writes and answers; last' is then its record.
ToggleWrites(r) == Toggling(r) /\ req'[r].pc = "idle"

\* A step that answers a request in the step that starts it; last' is its record.
AnswersAtOnce == calls' = calls + 1 /\ req' = req

\* A step that answers a request; last' is its record.
Ends == AnswersAtOnce \/ \E r \in Reqs : req[r].pc # "idle" /\ req'[r].pc = "idle"

\* C1: a toggle with a well-formed id that overlaps no other toggle of its key
\* removes the key's edge and reports false when the edge existed, creates exactly
\* one edge and reports true when it did not; the reported boolean is the edge's
\* existence after the call.
C1_ToggleAlone ==
    [][\A r \in Reqs, k \in EdgeKeys :
          (ToggleWrites(r) /\ req[r].alone /\ k = EdgeKey(req[r])) =>
              /\ last'.res.status = 200
              /\ (EdgesOf(k) # {} => (EdgesOf(k)' = {} /\ ~Reported(last')))
              /\ (EdgesOf(k) = {} =>
                      (Cardinality(EdgesOf(k)') = 1 /\ Reported(last')))
              /\ (Reported(last') <=> (EdgesOf(k)' # {}))]_vars

\* C1 witness: a toggle that ran alone has removed the edge and reported false.
C1_Witness ==
    /\ last.op \in ToggleOps /\ last.alone
    /\ last.res.status = 200 /\ last.deleted = "doc" /\ ~Reported(last)
    /\ EdgesOf(EdgeKey(last)) = {}

\* C2: in every reachable state the store holds at most one Subscription edge per
\* (subscriber, channel) pair and at most one Like per (likedBy, target) pair.
C2_AtMostOneEdge == \A k \in EdgeKeys : Cardinality(EdgesOf(k)) <= 1

\* C2 witness: two toggles of one key both saw the edge absent, one has created
\* it, and the store has refused the other's create.
C2_Witness ==
    /\ last.op \in ToggleOps /\ last.res.kind = "DuplicateKey"
    /\ Cardinality(EdgesOf(EdgeKey(last))) = 1

\* C3 (the claim as stated): starting with no edge, once the toggles of a key have
\* all completed, the edge exists iff an odd number of them completed.
C3_OddEven ==
    \A k \in EdgeKeys :
        (~ \E r \in Reqs : Toggling(r) /\ EdgeKey(req[r]) = k) =>
            ((EdgesOf(k) # {}) <=> (toggleCount[k] % 2 = 1))

\* C4 (the claim as stated): a toggle that saw the edge absent and whose create the
\* store rejects as a duplicate still answers 200 with true.
C4_DuplicateCreateSucceeds ==
    [][\A r \in Reqs :
          (ToggleWrites(r) /\ req[r].found = <<>> /\ EdgesOf(EdgeKey(req[r])) # {}) =>
              (last'.res.status = 200 /\ Reported(last'))]_vars

\* C5: a toggle that saw the edge present and deletes by its id answers 200 with
\* false; when the edge of that id is already gone, the delete changes nothing in
\* the store.
C5_DuplicateDeleteNoOp ==
    [][\A r \in Reqs :
          (ToggleWrites(r) /\ req[r].found # <<>>) =>
              /\ last'.res.status = 200 /\ ~Reported(last')
              /\ (last'.deleted = "null" =>
                      (subscriptions' = subscriptions /\ likes' = likes))]_vars

\* C5 witness: a toggle whose delete found nothing has answered 200 with false.
C5_Witness ==
    /\ last.op \in ToggleOps /\ last.deleted = "null"
    /\ last.res.status = 200 /\ ~Reported(last)

\* ----------------------------------------------------- derived count claims
\* The distinct subscribers with a Subscription edge to the channel.
Subscribers(channel) ==
    {u \in Users : \E d \in subscriptions : d.subscriber = u /\ d.channel = channel}

\* The derived fields of a result agree with the edges of the store.
DerivedNow(detail, channel, viewer) ==
    /\ detail.subscribersCount = Cardinality(Subscribers(channel))
    /\ detail.isSubscribed <=> (viewer \in Subscribers(channel))

\* C6: in every reachable state, the subscribersCount that getUserChannelProfile
\* derives for a channel, and the owner.subscribersCount that getVideoById derives,
\* is the number of distinct subscribers with an edge to the channel, and
\* isSubscribed holds iff the edge (viewer, channel) exists; the results the two
\* handlers read are these values of the state they are read in.
C6_DerivedCounts ==
    /\ [](\A viewer \in Users \cup {Null} :
             /\ \A channel \in Users :
                    DerivedNow(ChannelProfile(channel, viewer), channel, viewer)
             /\ \A v \in DOMAIN videos :
                    DerivedNow(VideoDetail(v, viewer)[1].owner, videos[v].owner, viewer))
    /\ [][/\ (AnswersAtOnce /\ last'.op = "getUserChannelProfile"
                 /\ last'.res.status = 200) =>
                 DerivedNow(last'.res.data, last'.id, last'.user)
          /\ \A r \in Reqs :
                 (req[r].pc = "idle" /\ req'[r].op = "getVideoById"
                     /\ req'[r].doc # <<>>) =>
                     DerivedNow(req'[r].doc[1].owner, videos[req'[r].id].owner,
                                req'[r].user)]_vars

\* C6 witness: getUserChannelProfile has answered a subscribed viewer with a
\* count of two subscribers.
C6_Witness ==
    /\ last.op = "getUserChannelProfile" /\ last.res.status = 200
    /\ last.res.data.subscribersCount = 2 /\ last.res.data.isSubscribed
    /\ Cardinality(Subscribers(last.id)) = 2

\* ------------------------------------------------------- video detail claims
\* getVideoById calls on video v that have done their $inc and not yet answered.
ViewsInFlight(v) ==
    Cardinality({r \in Reqs : req[r].op = "getVideoById" /\ req[r].pc = "history"
                              /\ req[r].id = v})

\* The views of every video in the store count the getVideoById calls on it:
\* those completed and those between their $inc and their response.
ViewsCountCalls ==
    \A v \in DOMAIN videos : videos[v].views = viewCount[v] + ViewsInFlight(v)

\* The $inc step of a call on a video in the store adds exactly 1 to its views;
\* the step that completes a call leaves the video in the viewer's watchHistory.
ViewStep ==
    \A r \in Reqs :
        /\ (req[r].op = "getVideoById" /\ req[r].pc = "inc" /\ req'[r].pc = "history"
            /\ req[r].id \in DOMAIN videos) =>
               videos'[req[r].id].views = videos[req[r].id].views + 1
        /\ (req[r].op = "getVideoById" /\ req[r].pc = "history" /\ req'[r].pc = "idle") =>
               /\ last'.res.status = 200
               /\ req[r].id \in Range(watchHistory'[req[r].user])

\* C7: each completed getVideoById(V, A) on a video in the store adds exactly 1 to
\* V.views and leaves V in A's watchHistory; with k calls completed and none in
\* flight, views = k.
C7_ViewsAndHistory == []ViewsCountCalls /\ [][ViewStep]_vars

\* C7 witness: two calls on a video have completed, its views are 2 and it is in
\* the last viewer's watchHistory.
C7_Witness ==
    /\ last.op = "getVideoById" /\ last.res.status = 200
    /\ last.id \in DOMAIN videos
    /\ viewCount[last.id] = 2 /\ videos[last.id].views = 2 /\ ViewsInFlight(last.id) = 0
    /\ last.id \in Range(watchHistory[last.user])

\* The step in which getVideoById call r updates the watch history and answers.
HistoryStep(r) ==
    req[r].op = "getVideoById" /\ req[r].pc = "history" /\ req'[r].pc = "idle"

\* C8 (the claim as stated): the update skips the append only when V is the last
\* element of A's watchHistory, and appends V at the end in every other case.
C8_AppendUnlessLast ==
    [][\A r \in Reqs :
          HistoryStep(r) =>
              LET h == watchHistory[req[r].user] IN
              watchHistory'[req[r].user] =
                  IF h # <<>> /\ Last(h) = req[r].id THEN h ELSE Append(h, req[r].id)]_vars

\* C8 (amended): the update skips the append whenever V is anywhere in A's
\* watchHistory, and appends V at the end only when V is absent.
C8_AppendUnlessPresent ==
    [][\A r \in Reqs :
          HistoryStep(r) =>
              LET h == watchHistory[req[r].user] IN
              watchHistory'[req[r].user] =
                  IF req[r].id \in Range(h) THEN h ELSE Append(h, req[r].id)]_vars

\* C8 witness: a call has met its video at an earlier position of the watch
\* history, not the last, and has left the history as it was.
C8_Witness ==
    /\ last.op = "getVideoById" /\ last.res.status = 200
    /\ Len(last.before) = 2 /\ last.before[1] = last.id
    /\ Last(last.before) # last.id
    /\ watchHistory[last.user] = last.before

\* ---------------------------------------------------------- playlist claims
NoDuplicates(array) == \A i, j \in DOMAIN array : array[i] = array[j] => i = j

\* The step in which request r of the handler op does its write and answers.
PlaylistWrites(r, op) == req[r].op = op /\ req[r].pc = "write" /\ req'[r].pc = "idle"

\* C9: no playlist ever holds a video twice; an addVideoToPlaylist whose video is
\* already in the playlist answers 200 and leaves the playlist, and the totals
\* getUserPlaylists derives from it, unchanged; a removeVideoFromPlaylist whose
\* video is not in the playlist answers 200 and leaves the playlist unchanged.
C9_SetSemantics ==
    /\ [](\A p \in DOMAIN playlists : NoDuplicates(playlists[p].videos))
    /\ [][\A r \in Reqs, p \in DOMAIN playlists :
             /\ (PlaylistWrites(r, "addVideoToPlaylist") /\ req[r].id = p
                    /\ req[r].id2 \in Range(playlists[p].videos)) =>
                    /\ last'.res.status = 200
                    /\ playlists' = playlists
                    /\ PlaylistSummary(p)' = PlaylistSummary(p)
             /\ (PlaylistWrites(r, "removeVideoFromPlaylist") /\ req[r].id = p
                    /\ req[r].id2 \notin Range(playlists[p].videos)) =>
                    /\ last'.res.status = 200
                    /\ playlists' = playlists]_vars

\* C9 witness: an addVideoToPlaylist has met its video in the playlist, answered
\* 200 and left the playlist as it was.
C9_Witness ==
    /\ last.op = "addVideoToPlaylist" /\ last.res.status = 200
    /\ last.id2 \in Range(last.before)
    /\ last.id \in DOMAIN playlists /\ playlists[last.id].videos = last.before

\* ----------------------------------------------------------- ownership claims
VideoMutators == {"updateVideo", "deleteVideo", "togglePublishStatus"}

PlaylistMutators == {"addVideoToPlaylist", "removeVideoFromPlaylist", "deletePlaylist",
                     "updatePlaylist"}

\* The entity in the store that a mutating request is about.
Entity(q) ==
    IF q.op \in VideoMutators THEN FindById(videos, q.id)
    ELSE IF q.op \in PlaylistMutators THEN FindById(playlists, q.id)
    ELSE <<>>

\* A mutating request on an entity of the store by a user who does not own it.
NonOwner(q) == Entity(q) # <<>> /\ Entity(q)[1].owner # q.user

\* The kind of error each handler's order of checks gives a non-owner.
NonOwnerKind(q) ==
    IF q.op \in {"updateVideo", "updatePlaylist"} /\ q.body = "noFields"
    THEN "InvalidInput"
    ELSE IF q.op \in {"addVideoToPlaylist", "removeVideoFromPlaylist"}
            /\ ~isValidObjectId(q.id2)
    THEN "InvalidReference"
    ELSE IF q.op \in {"addVideoToPlaylist", "removeVideoFromPlaylist"}
            /\ q.id2 \notin DOMAIN videos
    THEN "NotFound"
    ELSE "Forbidden"

\* C10 (the claim as stated): a mutating operation on a video or a playlist by a
\* user who is not its owner ends with a Forbidden-kind error and leaves the store
\* unchanged.
C10_NonOwnerForbidden ==
    [][(Ends /\ NonOwner(last')) =>
           (last'.res.kind = "Forbidden" /\ UNCHANGED <<edges, content>>)]_vars

\* C10 (amended): a mutating operation on a video or a playlist by a user who is
\* not its owner never reaches its write, ends with an error and leaves the store
\* unchanged; the error is the ownership error unless an earlier check of the
\* handler rejects the request: a missing body field in updateVideo and
\* updatePlaylist, a malformed or unmatched video id in addVideoToPlaylist and
\* removeVideoFromPlaylist.
C10_NonOwnerRejected ==
    [][/\ (Ends /\ NonOwner(last')) =>
              /\ last'.res.status # 200
              /\ last'.res.kind = NonOwnerKind(last')
              /\ UNCHANGED <<edges, content>>
       /\ \A r \in Reqs :
              (req[r].pc # "write" /\ req'[r].pc = "write") => ~NonOwner(req'[r])]_vars

\* C10 witness: addVideoToPlaylist by a user who does not own the playlist has
\* got past the checks of the playlist and of the video and ended with the
\* ownership error.
C10_Witness ==
    /\ last.op = "addVideoToPlaylist" /\ NonOwner(last)
    /\ last.id2 \in DOMAIN videos
    /\ last.res.kind = "Forbidden" /\ last.res.status = 400
    /\ playlists[last.id].videos = <<>>

\* The step in which mutating request r does its write and answers.
MutatorWrites(r) ==
    /\ req[r].op \in VideoMutators \cup PlaylistMutators
    /\ req[r].pc = "write" /\ req'[r].pc = "idle"

\* The entity of q is in the store and q's user owns it.
OwnedNow(q) == Entity(q) # <<>> /\ Entity(q)[1].owner = q.user

\* C11 (the claim as stated): the ownership condition is evaluated against the
\* entity as it is when the write is applied: a mutating request whose entity is,
\* at that moment, not an entity its user owns (another owner, or gone) changes
\* nothing and does not end in success.
C11_OwnerAtWrite ==
    [][\A r \in Reqs :
          (MutatorWrites(r) /\ ~OwnedNow(req[r])) =>
              (last'.res.status # 200 /\ UNCHANGED <<edges, content>>)]_vars

\* ---------------------------------------------------------- partial state
\* Likes of videos toggled against the deletion of the videos.
NextCascade ==
    \E r \in Reqs :
        \/ ToggleVideoLikeCall(r)
        \/ ToggleVideoLikeWrite(r)
        \/ DeleteVideoCall(r)
        \/ DeleteVideoWrite(r)

SpecCascade == Init /\ [][NextCascade]_vars

\* The Likes of a video.
LikesOf(v) == {d \in likes : d.video = v}

\* C12 (the claim as stated): a mutating operation that ends in an error leaves
\* the store as it was; a deleteVideo that ends in success has removed the video
\* and its Likes.
C12_NoPartialState ==
    [][\A r \in Reqs, v \in Videos :
          (req[r].pc = "write" /\ req'[r].pc = "idle" /\ req[r].id = v) =>
              /\ last'.res.status # 200 => UNCHANGED <<edges, content>>
              /\ (req[r].op = "deleteVideo" /\ last'.res.status = 200) =>
                     (v \notin DOMAIN videos' /\ LikesOf(v)' = {})]_vars

\* ------------------------------------------------------ invalid references
\* C13: a toggle whose target id is not a well-formed ObjectId ends, in the step
\* that starts it and before any findOne, with an InvalidReference-kind error
\* (status 400), and the Subscription and Like edges are unchanged; no toggle
\* with such an id ever waits on the store.
C13_InvalidReference ==
    [][/\ (calls' = calls + 1 /\ req' = req /\ last'.op \in ToggleOps
              /\ last'.id = BadId) =>
              /\ last'.res.kind = "InvalidReference" /\ last'.res.status = 400
              /\ UNCHANGED edges
       /\ \A r \in Reqs :
              (req'[r].op \in ToggleOps /\ req'[r].pc # "idle") =>
                  req'[r].id # BadId]_vars

\* C13 witness: with an edge in the store, a toggle with an ill-formed id has
\* been rejected.
C13_Witness ==
    /\ last.op \in ToggleOps /\ last.id = BadId
    /\ last.res.kind = "InvalidReference"
    /\ subscriptions # {} /\ likes # {}

\* ---------------------------------------------------------------- tweet likes
\* The ids a tweet like is asked for: one of a tweet, one that is ill formed.
TweetIds == {"t1", BadId}

\* toggleTweetLike, lines 66-70: the handler reads tweetId and returns; it
\* throws nothing, touches no collection and sends no response (NoRes).
ToggleTweetLike(r) ==
    /\ NextSlot(r)
    /\ \E user \in Users, tweetId \in TweetIds :
          EndAtOnce(r, Begin(r, "toggleTweetLike", user, tweetId, Null, "ok"), NoRes)
    /\ calls' = calls + 1
    /\ UNCHANGED <<edges, content, history, sessions>>

\* The like toggles of the three target kinds.
NextLike ==
    \E r \in Reqs :
        \/ ToggleVideoLikeCall(r)
        \/ ToggleVideoLikeWrite(r)
        \/ ToggleCommentLikeCall(r)
        \/ ToggleCommentLikeWrite(r)
        \/ ToggleTweetLike(r)

SpecLike == Init /\ [][NextLike]_vars

\* C14 (the claim as stated): a like toggle for a tweet ends by failing with an
\* UnsupportedTargetKind error delivered to the caller, and creates or deletes
\* no Like.
C14_UnsupportedTargetKind ==
    [][(calls' = calls + 1 /\ req' = req /\ last'.op = "toggleTweetLike") =>
           /\ last'.res.kind = "UnsupportedTargetKind"
           /\ last'.res.status # 200 /\ last'.res.status # 0
           /\ likes' = likes]_vars

\* ---------------------------------------------------------- anonymous reads
\* A read with no viewer identity of a channel or a video of the store.
AnonymousRead(q) ==
    /\ q.user = Null
    /\ \/ q.op = "getUserChannelProfile" /\ q.id \in Users
       \/ q.op = "getVideoById" /\ q.id \in DOMAIN videos

\* The viewer-relative flags of a successful read are all false.
FlagsFalse(q) ==
    IF q.op = "getUserChannelProfile"
    THEN ~q.res.data.isSubscribed
    ELSE \A i \in DOMAIN q.res.data.video :
             ~q.res.data.video[i].isLiked /\ ~q.res.data.video[i].owner.isSubscribed

\* C15 (the claim as stated): with no viewer identity, getUserChannelProfile and
\* getVideoById of an existing target succeed and report their membership flags
\* as false.
C15_AnonymousTolerated ==
    [][(Ends /\ AnonymousRead(last')) =>
           (last'.res.status = 200 /\ FlagsFalse(last'))]_vars

\* -------------------------------------------------------------------- feed
\* Pages and page sizes asked for.
MaxPage == 3
MaxLimit == 2

\* req.query.query: absent, a text that matches the titles of the initial
\* store, a text that matches the titles updateVideo sets.
Queries == {Null, "t0", "t1"}

\* req.query.sortBy: the default, and a field whose values repeat.
SortFields == {"createdAt", "views"}

SortTypes == {"asc", "desc"}

\* The creation time of a video: the videos of the store were created one after
\* the other.
CreatedAt(v) == IF v = "v1" THEN 1 ELSE 2

\* A stage of an aggregation pipeline.
Stage(op, field, str, num) == [op |-> op, field |-> field, str |-> str, num |-> num]

\* Array.prototype.unshift and push.
Unshift(pipeline, stage) == <<stage>> \o pipeline

Push(pipeline, stage) == Append(pipeline, stage)

\* Mutant: the owner match put in front after the search stage.
BuildPipelineOwnerFirst(page, limit, query, sortBy, sortType, userId) ==
    LET base == << Stage("$sort", sortBy, "", IF sortType = "desc" THEN -1 ELSE 1),
                   Stage("$skip", "", "", (page - 1) * limit),
                   Stage("$limit", "", "", limit) >>
        joined == Push(Push(base, Stage("$lookup", "owner", "users", 0)),
                       Stage("$unwind", "ownerDetails", "", 0))
        published == Push(joined, Stage("$match", "isPublished", "true", 0))
        searched == IF query # Null
                    THEN Unshift(published, Stage("$search", "title", query, 0))
                    ELSE published
    IN  IF isValidObjectId(userId)
        THEN Unshift(searched, Stage("$match", "owner", userId, 0))
        ELSE searched

\* Mutant: the match on isPublished left out.
BuildPipelineUnfiltered(page, limit, query, sortBy, sortType, userId) ==
    LET base == << Stage("$sort", sortBy, "", IF sortType = "desc" THEN -1 ELSE 1),
                   Stage("$skip", "", "", (page - 1) * limit),
                   Stage("$limit", "", "", limit) >>
        joined == Push(Push(base, Stage("$lookup", "owner", "users", 0)),
                       Stage("$unwind", "ownerDetails", "", 0))
        scoped == IF isValidObjectId(userId)
                  THEN Unshift(joined, Stage("$match", "owner", userId, 0))
                  ELSE joined
    IN  IF query # Null
        THEN Unshift(scoped, Stage("$search", "title", query, 0))
        ELSE scoped

\* getAllVideos, lines 18-71: the stage list as the handler builds it: sort, skip
\* and limit, then lookup and unwind pushed, the owner match unshifted when
\* userId is well formed, the match on isPublished pushed, the search stage
\* unshifted when a query is given.
BuildPipeline(page, limit, query, sortBy, sortType, userId) ==
    LET base == << Stage("$sort", sortBy, "", IF sortType = "desc" THEN -1 ELSE 1),
                   Stage("$skip", "", "", (page - 1) * limit),
                   Stage("$limit", "", "", limit) >>
        joined == Push(Push(base, Stage("$lookup", "owner", "users", 0)),
                       Stage("$unwind", "ownerDetails", "", 0))
        scoped == IF isValidObjectId(userId)
                  THEN Unshift(joined, Stage("$match", "owner", userId, 0))
                  ELSE joined
        published == Push(scoped, Stage("$match", "isPublished", "true", 0))
    IN  IF query # Null
        THEN Unshift(published, Stage("$search", "title", query, 0))
        ELSE published

\* The orders in which a set can be listed.
Orders(S) ==
    {s \in [1..Cardinality(S) -> S] : \A i, j \in DOMAIN s : s[i] = s[j] => i = j}

\* The Video collection as the documents an aggregate starts from.
VideoDocs ==
    LET ids == CHOOSE s \in Orders(DOMAIN videos) :
                   \A i, j \in DOMAIN s : i < j => CreatedAt(s[i]) < CreatedAt(s[j])
    IN  [i \in DOMAIN ids |->
            [id |-> ids[i], owner |-> videos[ids[i]].owner,
             views |-> videos[ids[i]].views, isPublished |-> videos[ids[i]].isPublished,
             title |-> videos[ids[i]].title, createdAt |-> CreatedAt(ids[i])]]

\* The value a $sort compares.
SortKey(doc, field) == IF field = "views" THEN doc.views ELSE doc.createdAt

\* $sort: the documents in an order of their keys.  The sort object holds the
\* one field (lines 19-20): the store does not fix the order of documents with
\* equal keys, and need not repeat it from one aggregate to the next.
SortOrders(docs, field, dir) ==
    {s \in Orders(Range(docs)) :
        \A i, j \in DOMAIN s :
            i < j => dir * SortKey(s[i], field) <= dir * SortKey(s[j], field)}

\* The results a stage can give on a sequence of documents.
RunStage(stage, docs) ==
    IF stage.op = "$search"
    THEN {SelectSeq(docs, LAMBDA d : d.title = stage.str)}
    ELSE IF stage.op = "$match" /\ stage.field = "owner"
    THEN {SelectSeq(docs, LAMBDA d : d.owner = stage.str)}
    ELSE IF stage.op = "$match"
    THEN {SelectSeq(docs, LAMBDA d : d.isPublished)}
    ELSE IF stage.op = "$sort"
    THEN SortOrders(docs, stage.field, stage.num)
    ELSE IF stage.op = "$skip"
    THEN {SubSeq(docs, stage.num + 1, Len(docs))}
    ELSE IF stage.op = "$limit"
    THEN {SubSeq(docs, 1, IF stage.num < Len(docs) THEN stage.num ELSE Len(docs))}
    ELSE IF stage.op = "$lookup"
    THEN {[i \in DOMAIN docs |->
              [ownerDetails |-> IF docs[i].owner \in Users
                                THEN <<[username |-> docs[i].owner]>>
                                ELSE <<>>] @@ docs[i]]}
    ELSE {SelectSeq(docs, LAMBDA d : d.ownerDetails # <<>>)}

RECURSIVE RunFrom(_, _, _)
\* Video.aggregate(pipeline), line 74: the stages applied one after the other;
\* the results the store can give.
RunFrom(pipeline, i, docs) ==
    IF i > Len(pipeline) THEN {docs}
    ELSE UNION {RunFrom(pipeline, i + 1, out) : out \in RunStage(pipeline[i], docs)}

\* The pages getAllVideos can answer with.
Feed(page, limit, query, sortBy, sortType, userId) ==
    RunFrom(BuildPipeline(page, limit, query, sortBy, sortType, userId), 1, VideoDocs)

\* getAllVideos, lines 11-79: the pipeline built and run, the result sent.
GetAllVideos(r) ==
    /\ NextSlot(r)
    /\ \E page \in 1..MaxPage, limit \in 1..MaxLimit, query \in Queries,
          sortBy \in SortFields, sortType \in SortTypes,
          userId \in Users \cup {Null, BadId} :
          \E result \in Feed(page, limit, query, sortBy, sortType, userId) :
              EndAtOnce(r, Begin(r, "getAllVideos", Null, userId, query, "ok"),
                        ApiResponse([videos |-> result]))
    /\ calls' = calls + 1
    /\ UNCHANGED <<edges, content, history, sessions>>

\* The feed read against the operations that change what it lists: the
\* published flag and the title.
NextFeed ==
    \E r \in Reqs :
        \/ GetAllVideos(r)
        \/ TogglePublishStatusCall(r)
        \/ TogglePublishStatusWrite(r)
        \/ UpdateVideoCall(r)
        \/ UpdateVideoWrite(r)

SpecFeed == Init /\ [][NextFeed]_vars

\* ------------------------------------------------------------- feed claims
\* The videos a feed lists over all its pages: published, of the owner when the
\* owner filter is well formed, matching the query when one is given.
ResultSet(query, userId) ==
    {v \in DOMAIN videos :
        /\ videos[v].isPublished
        /\ videos[v].owner \in Users
        /\ isValidObjectId(userId) => videos[v].owner = userId
        /\ query # Null => videos[v].title = query}

RECURSIVE ConcatPages(_, _)
\* Pages 1 to n, one after the other.
ConcatPages(pages, n) == IF n = 0 THEN <<>> ELSE ConcatPages(pages, n - 1) \o pages[n]

\* The ways pages 1 to MaxPage of one feed can be answered on the store as it is.
PageRuns(limit, query, sortBy, sortType, userId) ==
    LET answers == [n \in 1..MaxPage |-> Feed(n, limit, query, sortBy, sortType, userId)]
    IN  {pages \in [1..MaxPage -> UNION {answers[n] : n \in 1..MaxPage}] :
            \A n \in 1..MaxPage : pages[n] \in answers[n]}

\* The pages, one after the other, list every video of the result set exactly
\* once, in the order of the sort.
Partition(pages, query, sortBy, sortType, userId) ==
    LET all == ConcatPages(pages, MaxPage)
        dir == IF sortType = "desc" THEN -1 ELSE 1
    IN  /\ \A i, j \in DOMAIN all : i # j => all[i].id # all[j].id
        /\ {all[i].id : i \in DOMAIN all} = ResultSet(query, userId)
        /\ \A i, j \in DOMAIN all :
               i < j => dir * SortKey(all[i], sortBy) <= dir * SortKey(all[j], sortBy)

\* C16 (the claim as stated): on a fixed store, for a fixed sort field, direction,
\* limit and filters, the pages of getAllVideos are disjoint, and pages 1, 2, 3,
\* ... one after the other list every video of the result set exactly once, in
\* sort order.
C16_PagesPartition ==
    \A limit \in 1..MaxLimit, query \in Queries, sortBy \in SortFields,
       sortType \in SortTypes, userId \in Users \cup {Null, BadId} :
        \A pages \in PageRuns(limit, query, sortBy, sortType, userId) :
            Partition(pages, query, sortBy, sortType, userId)

\* C17: getAllVideos always answers 200, an empty sequence included; every video
\* in the answer is published, in the answer and in the store, and has the owner
\* of the userId filter when that is a well-formed id.
C17_PublishedOnly ==
    [][(AnswersAtOnce /\ last'.op = "getAllVideos") =>
           /\ last'.res.status = 200
           /\ \A i \in DOMAIN last'.res.data.videos :
                  LET doc == last'.res.data.videos[i] IN
                  /\ doc.isPublished
                  /\ doc.id \in DOMAIN videos /\ videos[doc.id].isPublished
                  /\ isValidObjectId(last'.id) => doc.owner = last'.id]_vars

\* C17 witness: with an unpublished video in the store, getAllVideos with an
\* owner filter has answered with that owner's published video.
C17_Witness ==
    /\ last.op = "getAllVideos" /\ last.res.status = 200
    /\ isValidObjectId(last.id)
    /\ last.res.data.videos # <<>>
    /\ \A i \in DOMAIN last.res.data.videos : last.res.data.videos[i].owner = last.id
    /\ \E v \in DOMAIN videos : ~videos[v].isPublished

\* The stage list in the order the claim gives, for a request with the given
\* query and owner filter.
StagesInOrder(p, page, limit, query, sortBy, sortType, userId) ==
    LET s == IF query # Null THEN 1 ELSE 0
        o == IF userId \in Users THEN 1 ELSE 0
    IN  /\ Len(p) = s + o + 6
        /\ query # Null => p[1] = Stage("$search", "title", query, 0)
        /\ userId \in Users => p[s + 1] = Stage("$match", "owner", userId, 0)
        /\ p[s + o + 1] =
               Stage("$sort", sortBy, "", IF sortType = "desc" THEN -1 ELSE 1)
        /\ p[s + o + 2] = Stage("$skip", "", "", (page - 1) * limit)
        /\ p[s + o + 3] = Stage("$limit", "", "", limit)
        /\ p[s + o + 4].op = "$lookup" /\ p[s + o + 4].field = "owner"
        /\ p[s + o + 5].op = "$unwind"
        /\ p[s + o + 6] = Stage("$match", "isPublished", "true", 0)

\* C18: whatever query and owner filter an answered getAllVideos request
\* carried, the stage list built for it has the search stage first when a query
\* is given, the owner match (when userId is well formed) right after it and
\* ahead of the sort, and then sort, skip((page - 1) * limit), limit, lookup of
\* the owner, unwind, match on isPublished, in that order and nothing else.
C18_StageOrder ==
    last.op = "getAllVideos" =>
        \A page \in 1..MaxPage, limit \in 1..MaxLimit,
           sortBy \in SortFields, sortType \in SortTypes :
            StagesInOrder(
                BuildPipeline(page, limit, last.id2, sortBy, sortType, last.id),
                page, limit, last.id2, sortBy, sortType, last.id)

\* C18 witness: getAllVideos has answered a request with a query and a
\* well-formed owner filter, whose stage list starts with the search stage and the
\* owner match.
C18_Witness ==
    /\ last.op = "getAllVideos" /\ last.res.status = 200
    /\ last.id2 # Null /\ last.id \in Users
    /\ LET p == BuildPipeline(1, 1, last.id2, "createdAt", "desc", last.id)
       IN  Len(p) = 8 /\ p[1].op = "$search" /\ p[2].op = "$match"

\* --------------------------------------------------------- every operation
\* All the operations on edges, videos and playlists, interleaved.
Next ==
    \E r \in Reqs :
        \/ ToggleSubscriptionCall(r)
        \/ ToggleSubscriptionWrite(r)
        \/ ToggleVideoLikeCall(r)
        \/ ToggleVideoLikeWrite(r)
        \/ ToggleCommentLikeCall(r)
        \/ ToggleCommentLikeWrite(r)
        \/ ToggleTweetLike(r)
        \/ GetUserChannelProfile(r)
        \/ GetAllVideos(r)
        \/ GetVideoByIdCall(r)
        \/ GetVideoByIdInc(r)
        \/ GetVideoByIdHistory(r)
        \/ UpdateVideoCall(r)
        \/ UpdateVideoWrite(r)
        \/ DeleteVideoCall(r)
        \/ DeleteVideoWrite(r)
        \/ TogglePublishStatusCall(r)
        \/ TogglePublishStatusWrite(r)
        \/ AddVideoToPlaylistCall(r)
        \/ AddVideoToPlaylistRead(r)
        \/ AddVideoToPlaylistWrite(r)
        \/ RemoveVideoFromPlaylistCall(r)
        \/ RemoveVideoFromPlaylistRead(r)
        \/ RemoveVideoFromPlaylistWrite(r)
        \/ DeletePlaylistCall(r)
        \/ DeletePlaylistWrite(r)
        \/ UpdatePlaylistCall(r)
        \/ UpdatePlaylistWrite(r)
        \/ GetUserPlaylists(r)

Spec == Init /\ [][Next]_vars

C20_ViewsMonotonic ==
    [][\A v \in Videos :
           (v \in DOMAIN videos /\ v \in DOMAIN videos') =>
               /\ videos'[v].views >= videos[v].views
               /\ videos'[v].views # videos[v].views =>
                      \E r \in Reqs : /\ req[r].op = "getVideoById"
                                      /\ req[r].pc = "inc" /\ req[r].id = v
                                      /\ req'[r].pc = "history"]_vars

\* C20 witness: togglePublishStatus has written to a video whose views had grown
\* since the handler read it, and the views are those counted.
C20_Witness ==
    /\ last.op = "togglePublishStatus" /\ last.res.status = 200
    /\ last.id \in DOMAIN videos
    /\ last.doc # <<>> /\ last.doc[1].views < videos[last.id].views
    /\ videos[last.id].views = viewCount[last.id] + ViewsInFlight(last.id)

\* ------------------------------------------------------ video detail claims
\* A step of a getVideoById whose aggregate matched no video.
MissingVideoStep(r) ==
    /\ req[r].op = "getVideoById" /\ req[r].doc = <<>>
    /\ req[r].pc \in {"inc", "history"} /\ req'[r].pc # req[r].pc

\* C21 (the claim as stated): a getVideoById whose well-formed videoId matched
\* no stored video changes nothing; in particular it adds nothing to the
\* viewer's watchHistory, so that an entry is added only for a video the
\* handler found in the store.
C21_MissingVideoNoChange ==
    [][\A r \in Reqs : MissingVideoStep(r) => UNCHANGED <<edges, content>>]_vars

\* ------------------------------------------------------- publish flag claims
\* togglePublishStatus calls on v between their findById and their write.
PublishInFlight(v) ==
    {r \in Reqs : req[r].op = "togglePublishStatus" /\ req[r].pc = "write"
                  /\ req[r].id = v}

\* With every togglePublishStatus on a video completed, the flag is the initial
\* one (true, as Video.create sets it) after an even number of completed calls
\* and its negation after an odd number.
PublishParity ==
    \A v \in DOMAIN videos :
        PublishInFlight(v) = {} =>
            (videos[v].isPublished <=> (publishCount[v] % 2 = 0))

\* The isPublished a completed call reports is the value its write stored.
ReportsOwnWrite ==
    \A r \in Reqs, v \in Videos :
        (r \in PublishInFlight(v) /\ req'[r].pc = "idle" /\ last'.res.status = 200) =>
            /\ v \in DOMAIN videos'
            /\ last'.res.data.isPublished = videos'[v].isPublished

\* C22 (the claim as stated): after n completed togglePublishStatus calls on a
\* video, isPublished is its initial value for even n and the negation for odd
\* n, under every interleaving of the reads and writes; and each call reports
\* the value its own write stored.
C22_PublishParity == []PublishParity /\ [][ReportsOwnWrite]_vars

\* ----------------------------------------------------------------- sessions
\* jwt.verify(incomingRefreshToken, secret), refreshAccessToken line 184: the _id
\* in the payload of a token signed with the secret; anything else throws.
Verify(token) ==
    IF \E n \in DOMAIN signed : Token(n) = token
    THEN signed[CHOOSE n \in DOMAIN signed : Token(n) = token]
    ELSE Null

\* user.generateRefreshToken(): the token signed next, a value not signed before.
GenerateRefreshToken == Token(Len(signed) + 1)

\* generateAccessAndRefreshTokens, lines 10-24: the token signed and saved as the
\* user's refreshToken.
GenerateAccessAndRefreshTokens(userId) ==
    /\ signed' = Append(signed, userId)
    /\ refreshToken' = [refreshToken EXCEPT ![userId] = GenerateRefreshToken]

\* The shapes of a loginUser request: complete, neither username nor email, no
\* such user, wrong password.
LoginBodies == {"ok", "noName", "noUser", "badPassword"}

\* loginUser, lines 95-126: the checks up to the password check.
LoginUserCall(r) ==
    /\ NextSlot(r)
    /\ \E user \in Users, body \in LoginBodies :
          LET q == Begin(r, "loginUser", user, Null, Null, body) IN
          IF body = "noName" THEN EndAtOnce(r, q, ApiError(400, "Validation"))
          ELSE IF body = "noUser" THEN EndAtOnce(r, q, ApiError(404, "NotFound"))
          ELSE IF body = "badPassword"
          THEN EndAtOnce(r, q, ApiError(401, "Unauthorized"))
          ELSE GoOn(r, q, "save", <<>>)
    /\ calls' = calls + 1
    /\ UNCHANGED <<edges, content, history, sessions>>

\* loginUser, lines 128-147: the tokens generated and saved, the response.
LoginUserSave(r) ==
    /\ req[r].op = "loginUser" /\ req[r].pc = "save"
    /\ GenerateAccessAndRefreshTokens(req[r].user)
    /\ Answer(r, req[r], ApiResponse([refreshToken |-> GenerateRefreshToken]))
    /\ UNCHANGED <<edges, content, calls, history, accepted, revoked>>

\* logoutUser, lines 149-173: $unset of the refreshToken of the user the access
\* token names.
LogoutUser(r) ==
    /\ NextSlot(r)
    /\ \E user \in Users :
          /\ refreshToken' = [refreshToken EXCEPT ![user] = Null]
          /\ revoked' = revoked \cup {Token(n) : n \in {m \in DOMAIN signed :
                                                            signed[m] = user}}
          /\ EndAtOnce(r, Begin(r, "logoutUser", user, Null, Null, "ok"),
                       ApiResponse(NoData))
    /\ calls' = calls + 1
    /\ UNCHANGED <<edges, content, history, signed, accepted>>

\* refreshAccessToken, lines 175-195: the token taken from the request, verified,
\* its user read and the user's stored token compared with it.  Every error of
\* the try block is answered 401.
RefreshAccessTokenCall(r) ==
    /\ NextSlot(r)
    /\ \E incoming \in Tokens \cup {Null, BadId} :
          LET q == Begin(r, "refreshAccessToken", Verify(incoming), Null, Null,
                         incoming)
          IN  IF incoming = Null \/ Verify(incoming) = Null
                 \/ incoming # refreshToken[Verify(incoming)]
              THEN EndAtOnce(r, q, ApiError(401, "Unauthorized"))
              ELSE GoOn(r, q, "save", <<>>)
    /\ calls' = calls + 1
    /\ UNCHANGED <<edges, content, history, sessions>>

\* refreshAccessToken, lines 197-215: the new tokens generated and saved, the
\* response.
RefreshAccessTokenSave(r) ==
    /\ req[r].op = "refreshAccessToken" /\ req[r].pc = "save"
    /\ GenerateAccessAndRefreshTokens(req[r].user)
    /\ accepted' = [accepted EXCEPT ![req[r].body] = @ + 1]
    /\ Answer(r, req[r], ApiResponse([refreshToken |-> GenerateRefreshToken]))
    /\ UNCHANGED <<edges, content, calls, history, revoked>>

\* Logins, logouts and token refreshes, interleaved.
NextSession ==
    \E r \in Reqs :
        \/ LoginUserCall(r)
        \/ LoginUserSave(r)
        \/ LogoutUser(r)
        \/ RefreshAccessTokenCall(r)
        \/ RefreshAccessTokenSave(r)

SpecSession == Init /\ [][NextSession]_vars

\* ---------------------------------------------------------- session claims
\* No token has been accepted by two refreshAccessToken calls.
AcceptedOnce == \A t \in Tokens : accepted[t] <= 1

\* A refreshAccessToken that presents a token signed for a user before a
\* completed logout of that user is answered 401 at once.
RevokedRejected ==
    \A r \in Reqs, t \in Tokens :
        (t \in revoked /\ req[r].pc = "idle") =>
            ~(req'[r].op = "refreshAccessToken" /\ req'[r].body = t)

\* C23 (the claim as stated): across every interleaving of refreshAccessToken,
\* loginUser and logoutUser, no token value is accepted by two
\* refreshAccessToken calls, and no token issued before a logout is accepted
\* after it.
C23_SingleUse == []AcceptedOnce /\ [][RevokedRejected]_vars

=============================================================================
